---- MODULE Spec2Model ----
(***************************************************************************)
(* console-thingy: the word-wrap engine (src/src/wrap.rs), the scrollback  *)
(* buffer (src/src/scrollback.rs), the shared console state and the        *)
(* console handle (src/src/lib.rs) and the render pass (src/src/gui.rs).   *)
(*                                                                         *)
(* A character is its Unicode scalar value; a string is a sequence of      *)
(* characters; offsets into a string are UTF-8 byte offsets, as in the     *)
(* source (char_indices, Range<usize>, String::len).                       *)
(***************************************************************************)
EXTENDS Integers, Sequences, FiniteSets, TLC

VARIABLES
    wrapped,        \* the Wrapped under test: string, wrapped_width, offsets, dirty
    iter,           \* the live Lines borrow of `wrapped`: its remaining spans, or NoLines
    front,          \* what next() has returned from the live Lines, in call order
    back,           \* what next_back() has returned from the live Lines, in call order
    last_item,      \* the outcome of the latest next()/next_back() call
    input,          \* State.input: the edit buffer (a Wrapped) and the InputMode
    scrollback,     \* State.scrollback: events (newest first), scroll, maximum_scroll, columns
    shutdown,       \* State.shutdown
    redrawer,       \* State.redrawer is Some
    events,         \* ConsoleHandle.events is Some (the event sender is alive)
    channel,        \* the events sent and not yet received by the application
    needs_redraw,   \* a redraw has been requested and no render pass has run since
    gui,            \* the presentation thread: "running", "panicked", or "closed"
                    \* once it has asked the window to close
    returned,       \* the value the latest presentation-side call returned
    app,            \* the application thread: "running", or how it ended:
                    \* "ok", "err" or "panicked"
    clones,         \* the Console clones alive on other threads
    thread,         \* ConsoleHandle.thread is Some (the thread is not joined yet)
    event,          \* what the latest next_event call returned
    held,           \* for each Mutex of State, the thread that holds its guard, or "free"
    running         \* for each thread, the lock and unlock steps left of the call it is in

wrap_vars == <<wrapped, iter, front, back, last_item>>

life_vars == <<app, clones, thread, event>>

lock_vars == <<held, running>>

console_vars ==
    <<input, scrollback, shutdown, redrawer, events, channel, needs_redraw, gui, returned,
      app, clones, thread, event, held, running>>

vars ==
    <<wrapped, iter, front, back, last_item,
      input, scrollback, shutdown, redrawer, events, channel, needs_redraw, gui, returned,
      app, clones, thread, event, held, running>>

-----------------------------------------------------------------------------
(* The locks of the shared state *)

\* the Mutex fields of State
Mutexes == {"shutdown", "input", "scrollback", "redrawer"}

\* the application thread, the presentation thread, and a thread the
\* application started with a clone of the Console
Threads == {"app", "presentation", "background"}

\* Mutex::lock and the drop of its guard
Lock(m) == [step |-> "lock", mutex |-> m]
Unlock(m) == [step |-> "unlock", mutex |-> m]

\* a function that locks one field, changes it and returns
Locked(m) == <<Lock(m), Unlock(m)>>

redraw_locks_reading_input ==
    <<Lock("redrawer"), Lock("input"), Unlock("input"), Unlock("redrawer")>>

\* State::redraw: the redrawer is locked while its callback runs
redraw_locks == Locked("redrawer")

\* Gui::render: the input guard, then the scrollback guard, dropped in the
\* reverse order at the end of the pass
render_locks ==
    <<Lock("input"), Lock("scrollback"), Unlock("scrollback"), Unlock("input")>>

\* the lock and unlock steps of each call, in program order
locks_of ==
    [push_line           |-> Locked("scrollback") \o redraw_locks,
     clear_scrollback    |-> Locked("scrollback") \o redraw_locks,
     reset_scroll        |-> Locked("scrollback") \o redraw_locks,
     set_suggestion      |-> Locked("input") \o redraw_locks,
     clear_secure        |-> Locked("input") \o redraw_locks,
     set_secure          |-> Locked("input") \o redraw_locks,
     clear_input         |-> Locked("input") \o redraw_locks,
     input               |-> Locked("input"),
     should_shutdown     |-> Locked("shutdown"),
     drop                |-> Locked("shutdown") \o redraw_locks,
     set_redrawer        |-> Locked("redrawer"),
     handle_input        |-> <<Lock("input")>> \o redraw_locks \o <<Unlock("input")>>,
     complete_suggestion |-> <<Lock("input")>> \o redraw_locks \o <<Unlock("input")>>,
     scroll              |-> <<Lock("scrollback")>> \o redraw_locks
                                 \o <<Unlock("scrollback")>>,
     render              |-> render_locks,
     update              |-> Locked("shutdown") \o Locked("shutdown")]

\* the calls of Console, made by the application thread and by a thread that
\* has a clone
ConsoleCalls ==
    {"push_line", "clear_scrollback", "reset_scroll", "set_suggestion",
     "clear_secure", "set_secure", "clear_input", "input", "should_shutdown",
     "drop"}

\* the calls the presentation thread makes
PresentationCalls ==
    {"set_redrawer", "handle_input", "complete_suggestion", "scroll", "render",
     "update"}

CallsOf(t) == IF t = "presentation" THEN PresentationCalls ELSE ConsoleCalls

\* no guard is held and no thread is in a call
LockInit ==
    /\ held = [m \in Mutexes |-> "free"]
    /\ running = [t \in Threads |-> <<>>]

\* the mutexes whose guard thread t holds
HeldBy(t) == {m \in Mutexes : held[m] = t}

\* thread t enters a call
Thread_call(t, call) ==
    /\ running[t] = <<>>
    /\ running' = [running EXCEPT ![t] = locks_of[call]]
    /\ UNCHANGED held
    /\ UNCHANGED <<input, scrollback, shutdown, redrawer, events, channel,
                   needs_redraw, gui, returned>>
    /\ UNCHANGED wrap_vars
    /\ UNCHANGED life_vars

\* Mutex::lock: the thread goes on only when the mutex is free (the mutex is
\* not reentrant)
Mutex_lock(t) ==
    /\ running[t] # <<>>
    /\ Head(running[t]).step = "lock"
    /\ held[Head(running[t]).mutex] = "free"
    /\ held' = [held EXCEPT ![Head(running[t]).mutex] = t]
    /\ running' = [running EXCEPT ![t] = Tail(@)]
    /\ UNCHANGED <<input, scrollback, shutdown, redrawer, events, channel,
                   needs_redraw, gui, returned>>
    /\ UNCHANGED wrap_vars
    /\ UNCHANGED life_vars

\* the drop of a MutexGuard
Mutex_unlock(t) ==
    /\ running[t] # <<>>
    /\ Head(running[t]).step = "unlock"
    /\ held' = [held EXCEPT ![Head(running[t]).mutex] = "free"]
    /\ running' = [running EXCEPT ![t] = Tail(@)]
    /\ UNCHANGED <<input, scrollback, shutdown, redrawer, events, channel,
                   needs_redraw, gui, returned>>
    /\ UNCHANGED wrap_vars
    /\ UNCHANGED life_vars

\* a thread in a call whose next step can be taken
CanStep(t) ==
    /\ running[t] # <<>>
    /\ Head(running[t]).step = "lock" => held[Head(running[t]).mutex] = "free"

-----------------------------------------------------------------------------
(* Bounds of the model *)

\* longest string enumerated as an input of the wrap engine
MaxLen == 4
\* widest wrap width enumerated (0 .. MaxWidth, and the widths of the unit test)
MaxWidth == 3
\* longest string of the Wrapped that is edited between its lines() calls
MaxEditLen == 3
\* most entries the scrollback holds (push_line is not taken beyond it)
MaxEntries == 2
\* longest text in the edit buffer (typing is not taken beyond it)
MaxInput == 3
\* most events waiting in the event channel (senders are not taken beyond it)
MaxQueue == 2
\* the width in bits of usize and isize in the model
UsizeBits == 4
\* most Console clones alive on other threads (clone is not taken beyond it)
MaxClones == 1

-----------------------------------------------------------------------------
(* Characters and strings *)

LF == 10
CR == 13
TAB == 9
SPACE == 32
BS == 8

\* the characters strings are drawn from: 'a', ' ', '\n' and the two-byte U+00E9
Alphabet == {97, 32, 10, 233}

\* "hello world", the string of wrap_tests
HelloWorld == <<104, 101, 108, 108, 111, 32, 119, 111, 114, 108, 100>>

\* char::len_utf8
len_utf8(ch) ==
    IF ch < 128 THEN 1 ELSE IF ch < 2048 THEN 2 ELSE IF ch < 65536 THEN 3 ELSE 4

\* char::is_ascii_punctuation
is_ascii_punctuation(ch) ==
    \/ ch \in 33..47
    \/ ch \in 58..64
    \/ ch \in 91..96
    \/ ch \in 123..126

\* char::is_ascii_control
is_ascii_control(ch) == ch \in 0..31 \/ ch = 127

\* is_break
is_break(ch) ==
    is_ascii_punctuation(ch) \/ ch = SPACE \/ ch = TAB \/ is_ascii_control(ch)

RECURSIVE ByteLen(_)
\* String::len: the length of the string in UTF-8 bytes
ByteLen(s) == IF s = <<>> THEN 0 ELSE len_utf8(Head(s)) + ByteLen(Tail(s))

\* the byte offset char_indices reports for the i-th character (1-based i)
ByteIndex(s, i) == ByteLen(SubSeq(s, 1, i - 1))

RECURSIVE CharBoundaries(_, _)
\* the byte offsets at which the characters of s start, and its end, for a
\* string that starts at byte `at`
CharBoundaries(s, at) ==
    IF s = <<>> THEN {at}
    ELSE {at} \cup CharBoundaries(Tail(s), at + len_utf8(Head(s)))

\* str::is_char_boundary
is_char_boundary(s, b) == b \in CharBoundaries(s, 0)

Range(start, end) == [start |-> start, end |-> end]

\* the outcome of a slice that panics
Panic == [ok |-> FALSE, text |-> <<>>]

\* the checks of a str index, given the character boundaries of the string:
\* the range is not reversed and its ends are on boundaries (the end of the
\* string is the last one)
RangeOk(range, boundaries) ==
    /\ range.start <= range.end
    /\ range.start \in boundaries
    /\ range.end \in boundaries

\* the checks of the str index &s[range]
SliceOk(s, range) == RangeOk(range, CharBoundaries(s, 0))

\* &source[range]: the characters of the byte range, or a panic
Slice(s, range) ==
    IF SliceOk(s, range)
    THEN LET first == Cardinality({i \in 1..Len(s) : ByteIndex(s, i) < range.start}) + 1
             last  == Cardinality({i \in 1..Len(s) : ByteIndex(s, i) < range.end})
         IN  [ok |-> TRUE, text |-> SubSeq(s, first, last)]
    ELSE Panic

RECURSIVE Strings(_)
\* all strings over Alphabet of at most n characters
Strings(n) ==
    IF n = 0 THEN {<<>>}
    ELSE LET shorter == Strings(n - 1)
         IN  shorter \cup {Append(s, ch) : s \in shorter, ch \in Alphabet}

Widths == 0..MaxWidth \cup {10, 11}

-----------------------------------------------------------------------------
(* Wrapped::wrap, the scan *)

\* the locals of wrap before the first character
ScanInit ==
    [ offsets            |-> <<>>,
      line_start         |-> 0,
      is_after_breakable |-> TRUE,
      last_word_start    |-> 0,
      word_char_length   |-> 0,
      line_length        |-> 0 ]

\* lines 35-55: the classification of one character
ScanChar(st, index, ch) ==
    IF ch = LF \/ ch = CR
    THEN [ st EXCEPT !.offsets = Append(@, Range(st.line_start, index)),
                     !.line_start = index + 1,
                     !.last_word_start = 0,
                     !.word_char_length = 0,
                     !.line_length = 0,
                     !.is_after_breakable = TRUE ]
    ELSE IF is_break(ch)
    THEN [ st EXCEPT !.line_length = @ + 1,
                     !.is_after_breakable = TRUE,
                     !.word_char_length = 0 ]
    ELSE IF st.is_after_breakable
    THEN [ st EXCEPT !.line_length = @ + 1,
                     !.is_after_breakable = FALSE,
                     !.last_word_start = index,
                     !.word_char_length = 1 ]
    ELSE [ st EXCEPT !.line_length = @ + 1,
                     !.word_char_length = @ + 1 ]

\* line 57: the line is full and the iterator has another character
BreakFires(st, chars_wide, has_next) ==
    st.line_length = chars_wide /\ has_next

ScanBreak_at_cursor(st, chars_wide, has_next, index_after) ==
    IF BreakFires(st, chars_wide, has_next)
    THEN [ st EXCEPT !.offsets = Append(@, Range(st.line_start, index_after)),
                     !.line_start = index_after,
                     !.line_length = 0 ]
    ELSE st

\* lines 57-61: close the line at the start of the last word
\* (index_after, the cursor past the character, is not read by the source)
ScanBreak(st, chars_wide, has_next, index_after) ==
    IF BreakFires(st, chars_wide, has_next)
    THEN [ st EXCEPT !.offsets = Append(@, Range(st.line_start, st.last_word_start)),
                     !.line_start = st.last_word_start,
                     !.line_length = st.word_char_length ]
    ELSE st

\* one iteration of the while loop for the i-th character of s
ScanStep(st, s, chars_wide, i) ==
    ScanBreak(ScanChar(st, ByteIndex(s, i), s[i]), chars_wide, i < Len(s),
              ByteIndex(s, i + 1))

RECURSIVE ScanTo(_, _, _)
\* the locals of wrap after the first n characters of s
ScanTo(s, chars_wide, n) ==
    IF n = 0 THEN ScanInit
    ELSE ScanStep(ScanTo(s, chars_wide, n - 1), s, chars_wide, n)

\* lines 64-68: the spans after the loop
ScanEnd(st, s) ==
    IF st.line_length > 0
    THEN Append(st.offsets, Range(st.line_start, ByteLen(s)))
    ELSE IF st.offsets = <<>>
    THEN <<Range(0, 0)>>
    ELSE st.offsets

\* lines 28-68: the spans wrap leaves in self.offsets
WrapOffsets(s, chars_wide) == ScanEnd(ScanTo(s, chars_wide, Len(s)), s)

\* Wrapped::wrap
wrap(wr, chars_wide) ==
    [ string        |-> wr.string,
      wrapped_width |-> chars_wide,
      offsets       |-> WrapOffsets(wr.string, chars_wide),
      dirty         |-> FALSE ]

\* Wrapped::lines, the state of self when it returns
lines(wr, width) ==
    IF wr.dirty \/ wr.wrapped_width # width THEN wrap(wr, width) ELSE wr

\* From<String> for Wrapped
from_string(s) ==
    [ string |-> s, wrapped_width |-> 0, offsets |-> <<>>, dirty |-> TRUE ]

\* #[derive(Default)] for Wrapped
default_wrapped ==
    [ string |-> <<>>, wrapped_width |-> 0, offsets |-> <<>>, dirty |-> FALSE ]

deref_mut_clean(wr) == wr

\* DerefMut for Wrapped: the state of self once the &mut String is handed out
deref_mut(wr) == [wr EXCEPT !.dirty = TRUE]

-----------------------------------------------------------------------------
(* The Wrapped under test and its Lines iterator *)

\* no Lines is borrowed from the Wrapped
NoLines == [live |-> FALSE, wrapped |-> <<>>]
\* Lines { source: &self.string, wrapped: &self.offsets }
Lines(offsets) == [live |-> TRUE, wrapped |-> offsets]

NoItem == [kind |-> "none yet", text |-> <<>>]
Some(text) == [kind |-> "Some", text |-> text]
None == [kind |-> "None", text |-> <<>>]
Panicked == [kind |-> "panic", text |-> <<>>]

\* wrapped.lines(width): rewrap when stale, hand out a Lines over the spans
Wrapped_lines(width) ==
    /\ wrapped' = lines(wrapped, width)
    /\ iter' = Lines(wrapped'.offsets)
    /\ front' = <<>>
    /\ back' = <<>>
    /\ last_item' = NoItem
    /\ UNCHANGED console_vars

\* (*wrapped).push(ch) through DerefMut; the Lines borrow has ended
String_push(ch) ==
    /\ Len(wrapped.string) < MaxEditLen
    /\ wrapped' = [deref_mut(wrapped) EXCEPT !.string = Append(@, ch)]
    /\ iter' = NoLines
    /\ front' = <<>>
    /\ back' = <<>>
    /\ last_item' = NoItem
    /\ UNCHANGED console_vars

\* (*wrapped).pop() through DerefMut
String_pop ==
    /\ wrapped' = [deref_mut(wrapped) EXCEPT
                     !.string = IF @ = <<>> THEN @ ELSE SubSeq(@, 1, Len(@) - 1)]
    /\ iter' = NoLines
    /\ front' = <<>>
    /\ back' = <<>>
    /\ last_item' = NoItem
    /\ UNCHANGED console_vars

\* (*wrapped).clear() through DerefMut
String_clear ==
    /\ wrapped' = [deref_mut(wrapped) EXCEPT !.string = <<>>]
    /\ iter' = NoLines
    /\ front' = <<>>
    /\ back' = <<>>
    /\ last_item' = NoItem
    /\ UNCHANGED console_vars

\* Lines::next, the remaining spans after a call that found one
next_rest(remaining) == Tail(remaining)

\* Lines::next_back, the remaining spans after a call that found one
next_back_rest(remaining) == SubSeq(remaining, 1, Len(remaining) - 1)

\* ExactSizeIterator::len
Lines_len == Len(iter.wrapped)

\* Lines::next: None at the end; otherwise drop the first span and slice it,
\* and a slice that panics unwinds through the caller, dropping the Lines
Lines_next ==
    /\ iter.live
    /\ IF iter.wrapped = <<>>
       THEN /\ last_item' = None
            /\ UNCHANGED <<iter, front>>
       ELSE LET item == Slice(wrapped.string, Head(iter.wrapped))
            IN  IF item.ok
                THEN /\ iter' = Lines(next_rest(iter.wrapped))
                     /\ last_item' = Some(item.text)
                     /\ front' = Append(front, item.text)
                ELSE /\ iter' = NoLines
                     /\ last_item' = Panicked
                     /\ UNCHANGED front
    /\ UNCHANGED <<wrapped, back>>
    /\ UNCHANGED console_vars

\* Lines::next_back: the same from the other end
Lines_next_back ==
    /\ iter.live
    /\ IF iter.wrapped = <<>>
       THEN /\ last_item' = None
            /\ UNCHANGED <<iter, back>>
       ELSE LET item == Slice(wrapped.string, iter.wrapped[Len(iter.wrapped)])
            IN  IF item.ok
                THEN /\ iter' = Lines(next_back_rest(iter.wrapped))
                     /\ last_item' = Some(item.text)
                     /\ back' = Append(back, item.text)
                ELSE /\ iter' = NoLines
                     /\ last_item' = Panicked
                     /\ UNCHANGED back
    /\ UNCHANGED <<wrapped, front>>
    /\ UNCHANGED console_vars

-----------------------------------------------------------------------------
(* usize and isize arithmetic *)

USIZE_MAX == 2^UsizeBits - 1
ISIZE_MAX == 2^(UsizeBits - 1) - 1
ISIZE_MIN == -(2^(UsizeBits - 1))

\* usize::saturating_add
saturating_add(a, b) == IF a + b > USIZE_MAX THEN USIZE_MAX ELSE a + b

\* usize::saturating_sub
saturating_sub(a, b) == IF b > a THEN 0 ELSE a - b

\* usize `+=` where it wraps on overflow (a release build)
wrapping_add(a, b) == (a + b) % (2^UsizeBits)

\* Ord::min
min(a, b) == IF a <= b THEN a ELSE b

\* `f as usize` for a wheel delta that has already been made non-negative:
\* the cast truncates and saturates at the ends of usize
float_as_usize(f) == IF f < 0 THEN 0 ELSE IF f > USIZE_MAX THEN USIZE_MAX ELSE f

-----------------------------------------------------------------------------
(* The shared console state *)

\* InputMode
Text == [kind |-> "Text", suggestion |-> <<>>]
Suggesting(suggestion) == [kind |-> "Suggesting", suggestion |-> suggestion]
Secure == [kind |-> "Secure", suggestion |-> <<>>]

\* #[derive(Default)] for Input
default_input == [buffer |-> default_wrapped, mode |-> Text]

\* #[derive(Default)] for Scrollback
default_scrollback ==
    [events |-> <<>>, scroll |-> 0, maximum_scroll |-> 0, columns |-> 0]

\* the lines the application pushes: "aa a" and "\n  "
PushLines == {<<97, 97, 32, 97>>, <<10, 32, 32>>}

\* the viewport sizes a render pass sees, in columns and in rows
Cols == {0, 1, 2, 3}
Rows == {0, 2}

\* the deltas ConsoleHandle::scroll is called with
ScrollDeltas == {ISIZE_MIN, -1, 0, 1, ISIZE_MAX}

\* the wheel deltas, in lines, of a MouseWheel event; the ends stand for
\* deltas beyond the range of usize
WheelLines == {-(USIZE_MAX + 1), -1, 1, USIZE_MAX + 1}

push_back(sb, line) ==
    IF sb.scroll # 0
    THEN LET pre == lines(from_string(line), sb.columns)
         IN  [sb EXCEPT !.scroll = wrapping_add(@, Len(pre.offsets)),
                        !.events = Append(@, pre)]
    ELSE [sb EXCEPT !.events = Append(@, from_string(line))]

push_without_scroll(sb, line) ==
    [sb EXCEPT !.events = <<from_string(line)>> \o @]

\* State::push, the scrollback when the lock is released
push(sb, line) ==
    IF sb.scroll # 0
    THEN LET pre == lines(from_string(line), sb.columns)
         IN  [sb EXCEPT !.scroll = wrapping_add(@, Len(pre.offsets)),
                        !.events = <<pre>> \o @]
    ELSE [sb EXCEPT !.events = <<from_string(line)>> \o @]

scroll_unclamped(sb, delta) ==
    IF delta > 0
    THEN [sb EXCEPT !.scroll = saturating_add(@, delta)]
    ELSE IF delta = ISIZE_MIN
    THEN [sb EXCEPT !.scroll = saturating_sub(@, ISIZE_MAX + 1)]
    ELSE [sb EXCEPT !.scroll = saturating_sub(@, -delta)]

\* ConsoleHandle::scroll, the scrollback when the lock is released
scroll(sb, delta) ==
    IF delta > 0
    THEN [sb EXCEPT !.scroll = min(saturating_add(@, delta), sb.maximum_scroll)]
    ELSE IF delta = ISIZE_MIN
    THEN [sb EXCEPT !.scroll = saturating_sub(@, ISIZE_MAX + 1)]
    ELSE [sb EXCEPT !.scroll = saturating_sub(@, -delta)]

\* Gui::process_input, Event::MouseWheel
mouse_wheel(sb, wheel_lines) ==
    IF wheel_lines > 0
    THEN [sb EXCEPT !.scroll =
             min(saturating_add(@, float_as_usize(wheel_lines)), sb.maximum_scroll)]
    ELSE [sb EXCEPT !.scroll = saturating_sub(@, float_as_usize(-wheel_lines))]

clear_entries_only(sb) == [sb EXCEPT !.events = <<>>]

\* State::clear_scrollback
clear_scrollback(sb) == [sb EXCEPT !.scroll = 0, !.events = <<>>]

\* State::scroll_to_current
scroll_to_current(sb) == [sb EXCEPT !.scroll = 0]

\* some span of the offsets cannot be sliced
SomeRangePanics(offsets, boundaries) ==
    \E k \in 1..Len(offsets) : ~RangeOk(offsets[k], boundaries)

\* iterating the Lines of a Wrapped to the end panics on a span that cannot
\* be sliced
LinesPanic(wr) == SomeRangePanics(wr.offsets, CharBoundaries(wr.string, 0))

RECURSIVE SumLines(_)
\* total_lines: one per line of every entry
SumLines(entries) ==
    IF entries = <<>> THEN 0
    ELSE Len(Head(entries).offsets) + SumLines(Tail(entries))

maximum_scroll_ignoring_input(total_lines, rows, input_lines_count) ==
    saturating_sub(total_lines, rows)

\* Gui::render, line 255
maximum_scroll_of(total_lines, rows, input_lines_count) ==
    saturating_sub(total_lines, saturating_sub(rows, input_lines_count))

clamp_scroll_keeping_scroll(sb, maximum) ==
    [ scrollback   |-> [sb EXCEPT !.maximum_scroll = maximum],
      needs_redraw |-> sb.scroll > maximum ]

\* Gui::render, lines 255-260: the new bound and the clamp of scroll
clamp_scroll(sb, maximum) ==
    IF sb.scroll > maximum
    THEN [ scrollback   |-> [sb EXCEPT !.maximum_scroll = maximum, !.scroll = maximum],
           needs_redraw |-> TRUE ]
    ELSE [ scrollback   |-> [sb EXCEPT !.maximum_scroll = maximum],
           needs_redraw |-> FALSE ]

RECURSIVE RewrapAll(_, _)
\* Gui::render, lines 234-236: every entry rewrapped at cols
RewrapAll(entries, cols) ==
    IF entries = <<>> THEN <<>>
    ELSE <<lines(Head(entries), cols)>> \o RewrapAll(Tail(entries), cols)

\* the entries when an entry's lines panic: the loop has rewrapped the
\* entries up to that one and not touched the ones after it
RewrappedUpTo(entries, rewrapped, bad) ==
    LET first_bad == CHOOSE k \in bad : \A k2 \in bad : k <= k2
    IN  [k \in 1..Len(entries) |-> IF k <= first_bad THEN rewrapped[k] ELSE entries[k]]

\* Gui::render, lines 231-260, given the rewrapped input buffer and entries
render_scrollback(inp, sb, rows, buffer, rewrapped, bad) ==
    IF bad # {}
    THEN [ panicked     |-> TRUE,
           input        |-> [inp EXCEPT !.buffer = buffer],
           scrollback   |-> [sb EXCEPT !.events = RewrappedUpTo(sb.events, rewrapped, bad)],
           needs_redraw |-> FALSE ]
    ELSE LET clamped == clamp_scroll([sb EXCEPT !.events = rewrapped],
                                     maximum_scroll_of(SumLines(rewrapped), rows,
                                                       Len(buffer.offsets)))
         IN  [ panicked     |-> FALSE,
               input        |-> [inp EXCEPT !.buffer = buffer],
               scrollback   |-> clamped.scrollback,
               needs_redraw |-> clamped.needs_redraw ]

\* Gui::render, lines 234-253, given the rewrapped entries: drawing an
\* entry's lines slices every one of them
render_entries(inp, sb, rows, buffer, rewrapped) ==
    render_scrollback(inp, sb, rows, buffer, rewrapped,
                      {k \in 1..Len(rewrapped) : LinesPanic(rewrapped[k])})

\* Gui::render, lines 192-229, given the rewrapped input buffer: drawing the
\* input lines slices every one of them
render_input(inp, sb, cols, rows, buffer) ==
    IF LinesPanic(buffer)
    THEN [ panicked     |-> TRUE,
           input        |-> [inp EXCEPT !.buffer = buffer],
           scrollback   |-> sb,
           needs_redraw |-> FALSE ]
    ELSE render_entries(inp, sb, rows, buffer, RewrapAll(sb.events, cols))

\* Gui::render for a viewport of cols columns and rows rows: the input and
\* the scrollback when the locks are released, whether the pass panicked and
\* whether it asked for another pass
render(inp, sb, cols, rows) ==
    render_input(inp, [sb EXCEPT !.columns = cols], cols, rows, lines(inp.buffer, cols))

\* State::redraw: the installed redrawer, if any, requests a redraw
redraw == needs_redraw' = (needs_redraw \/ redrawer)

\* RedrawStatus::set_needs_redraw
set_needs_redraw == needs_redraw' = TRUE

\* some Console is alive: the one of the application thread, or a clone on
\* another thread; they hold the receivers of the event channel
ConsoleAlive == app = "running" \/ clones > 0

\* Arc::strong_count(&self.state): the handle's reference and one for every
\* Console
strong_count == 1 + (IF app = "running" THEN 1 ELSE 0) + clones

\* State::should_shutdown, which Console::should_shutdown returns
Console_should_shutdown == shutdown

\* JoinHandle::is_finished
is_finished == app # "running"

ConsoleHandle_should_shutdown_by_flag == Console_should_shutdown

\* ConsoleHandle::should_shutdown
ConsoleHandle_should_shutdown ==
    IF Console_should_shutdown THEN TRUE ELSE (~thread \/ is_finished)

\* Console::spawn: the application thread runs with the one Console, and
\* the handle holds its JoinHandle
LifeInit ==
    /\ app = "running"
    /\ clones = 0
    /\ thread = TRUE
    /\ event = "none"
    /\ LockInit

\* State::from(config)
StateInit ==
    /\ input = default_input
    /\ scrollback = default_scrollback
    /\ shutdown = FALSE
    /\ redrawer = FALSE
    /\ events = TRUE
    /\ channel = <<>>
    /\ needs_redraw = FALSE
    /\ gui = "running"
    /\ returned = "nothing"
    /\ LifeInit

\* State::set_redrawer
State_set_redrawer ==
    /\ ~redrawer
    /\ redrawer' = TRUE
    /\ UNCHANGED <<input, scrollback, shutdown, events, channel, needs_redraw, gui, returned>>
    /\ UNCHANGED wrap_vars
    /\ UNCHANGED lock_vars
    /\ UNCHANGED life_vars

\* Console::push_line
Console_push_line(line) ==
    /\ ConsoleAlive
    /\ Len(scrollback.events) < MaxEntries
    /\ scrollback' = push(scrollback, line)
    /\ redraw
    /\ UNCHANGED <<input, shutdown, redrawer, events, channel, gui, returned>>
    /\ UNCHANGED wrap_vars
    /\ UNCHANGED lock_vars
    /\ UNCHANGED life_vars

\* Console::clear_scrollback
Console_clear_scrollback ==
    /\ ConsoleAlive
    /\ scrollback' = clear_scrollback(scrollback)
    /\ redraw
    /\ UNCHANGED <<input, shutdown, redrawer, events, channel, gui, returned>>
    /\ UNCHANGED wrap_vars
    /\ UNCHANGED lock_vars
    /\ UNCHANGED life_vars

\* Console::reset_scroll
Console_reset_scroll ==
    /\ ConsoleAlive
    /\ scrollback' = scroll_to_current(scrollback)
    /\ redraw
    /\ UNCHANGED <<input, shutdown, redrawer, events, channel, gui, returned>>
    /\ UNCHANGED wrap_vars
    /\ UNCHANGED lock_vars
    /\ UNCHANGED life_vars

\* ConsoleHandle::scroll
ConsoleHandle_scroll(delta) ==
    /\ gui = "running"
    /\ scrollback' = scroll(scrollback, delta)
    /\ redraw
    /\ UNCHANGED <<input, shutdown, redrawer, events, channel, gui, returned>>
    /\ UNCHANGED wrap_vars
    /\ UNCHANGED lock_vars
    /\ UNCHANGED life_vars

\* Gui::process_input, Event::MouseWheel
Gui_mouse_wheel(wheel_lines) ==
    /\ gui = "running"
    /\ scrollback' = mouse_wheel(scrollback, wheel_lines)
    /\ set_needs_redraw
    /\ UNCHANGED <<input, shutdown, redrawer, events, channel, gui, returned>>
    /\ UNCHANGED wrap_vars
    /\ UNCHANGED lock_vars
    /\ UNCHANGED life_vars

\* the state a render pass leaves
RenderPass(pass) ==
    /\ input' = pass.input
    /\ scrollback' = pass.scrollback
    /\ needs_redraw' = pass.needs_redraw
    /\ gui' = IF pass.panicked THEN "panicked" ELSE "running"

\* Gui::render: a pass that panics ends the presentation thread
Gui_render(cols, rows) ==
    /\ gui = "running"
    /\ RenderPass(render(input, scrollback, cols, rows))
    /\ UNCHANGED <<shutdown, redrawer, events, channel, returned>>
    /\ UNCHANGED wrap_vars
    /\ UNCHANGED lock_vars
    /\ UNCHANGED life_vars

\* the characters the user types: 'a', 'b', backspace, carriage return,
\* newline and tab
TypedChars == {97, 98, BS, CR, LF, TAB}

\* the suggestions the application sets: "", "b" and "ab"
Suggestions == {<<>>, <<98>>, <<97, 98>>}

pop_front(s) == IF s = <<>> THEN s ELSE Tail(s)

\* String::pop on the buffer
pop(s) == IF s = <<>> THEN s ELSE SubSeq(s, 1, Len(s) - 1)

\* ConsoleHandle::input, lines 213-236: the input when the lock is released
\* and the events sent meanwhile
input_char(inp, ch) ==
    IF ch = BS
    THEN [ input |-> [inp EXCEPT
                        !.buffer = [deref_mut(@) EXCEPT !.string = pop(@)],
                        !.mode = IF @.kind = "Suggesting" THEN Suggesting(<<>>) ELSE @],
           sent  |-> <<"InputBufferChanged">> ]
    ELSE IF ch = CR \/ ch = LF
    THEN [input |-> inp, sent |-> <<"Input">>]
    ELSE IF ch = TAB
    THEN [input |-> inp, sent |-> <<>>]
    ELSE [ input |-> [inp EXCEPT
                        !.buffer = [deref_mut(@) EXCEPT !.string = Append(@, ch)],
                        !.mode = IF @.kind = "Suggesting" /\ @.suggestion # <<>>
                                    /\ Head(@.suggestion) = ch
                                 THEN Suggesting(Tail(@.suggestion))
                                 ELSE @],
           sent  |-> <<"InputBufferChanged">> ]

complete_suggestion_keeping_it(inp) ==
    IF inp.mode.kind = "Suggesting" /\ inp.mode.suggestion # <<>>
    THEN [ input    |-> [inp EXCEPT
                           !.buffer = [deref_mut(@) EXCEPT
                                         !.string = @ \o inp.mode.suggestion]],
           result   |-> "true",
           redraws  |-> TRUE,
           sent     |-> <<"InputBufferChanged">> ]
    ELSE [input |-> inp, result |-> "false", redraws |-> FALSE, sent |-> <<>>]

\* ConsoleHandle::complete_suggestion: the input when the lock is released,
\* the value returned, whether redraw was called and the events sent
complete_suggestion(inp) ==
    IF inp.mode.kind = "Suggesting" /\ inp.mode.suggestion # <<>>
    THEN [ input    |-> [inp EXCEPT
                           !.buffer = [deref_mut(@) EXCEPT
                                         !.string = @ \o inp.mode.suggestion],
                           !.mode = Suggesting(<<>>)],
           result   |-> "true",
           redraws  |-> TRUE,
           sent     |-> <<"InputBufferChanged">> ]
    ELSE [input |-> inp, result |-> "false", redraws |-> FALSE, sent |-> <<>>]

\* State::set_suggestion
set_suggestion(inp, suggestion) == [inp EXCEPT !.mode = Suggesting(suggestion)]

\* State::clear_secure: the buffer is overwritten with NULs and cleared
clear_secure(inp) ==
    [inp EXCEPT !.mode = Text, !.buffer = [deref_mut(@) EXCEPT !.string = <<>>]]

\* State::set_secure
set_secure(inp) == [inp EXCEPT !.mode = Secure]

clear_input_keeping_mode(inp) ==
    [inp EXCEPT !.buffer = [deref_mut(@) EXCEPT !.string = <<>>]]

\* State::clear_input
clear_input(inp) ==
    [inp EXCEPT !.buffer = [deref_mut(@) EXCEPT !.string = <<>>],
                !.mode = IF @.kind = "Suggesting" THEN Text ELSE @]

send_nothing(sent) == channel' = channel

\* ConsoleHandle::send for each of the events, in order: sent on the channel
\* when the sender is still there; a send that fails because no receiver is
\* left is ignored
send(sent) ==
    channel' = IF events /\ ConsoleAlive THEN channel \o sent ELSE channel

\* the MutexGuards of State that are alive while a ConsoleHandle handler
\* calls send() and State::redraw(): the guard bound at the top of the
\* function is dropped at its end
guards ==
    [input |-> {"input"},
     complete_suggestion |-> {"input"},
     scroll |-> {"scrollback"}]

\* ConsoleHandle::input
ConsoleHandle_input(ch) ==
    /\ gui = "running"
    /\ ch \notin {BS, CR, LF, TAB} => Len(input.buffer.string) < MaxInput
    /\ Len(channel) < MaxQueue
    /\ input' = input_char(input, ch).input
    /\ send(input_char(input, ch).sent)
    /\ redraw
    /\ UNCHANGED <<scrollback, shutdown, redrawer, events, gui, returned>>
    /\ UNCHANGED wrap_vars
    /\ UNCHANGED lock_vars
    /\ UNCHANGED life_vars

\* the state a complete_suggestion call leaves
CompleteSuggestion(done) ==
    /\ input' = done.input
    /\ returned' = done.result
    /\ send(done.sent)
    /\ IF done.redraws THEN redraw ELSE UNCHANGED needs_redraw

\* ConsoleHandle::complete_suggestion
ConsoleHandle_complete_suggestion ==
    /\ gui = "running"
    /\ Len(input.buffer.string) + Len(input.mode.suggestion) <= MaxInput
    /\ Len(channel) < MaxQueue
    /\ CompleteSuggestion(complete_suggestion(input))
    /\ UNCHANGED <<scrollback, shutdown, redrawer, events, gui>>
    /\ UNCHANGED wrap_vars
    /\ UNCHANGED lock_vars
    /\ UNCHANGED life_vars

join_ignoring_outcome(handle, outcome) ==
    IF handle /\ outcome = "running" THEN "blocked" ELSE "Ok"

\* ConsoleHandle::shutdown, lines 199-203: what thread.take() and the join
\* give; the join of a thread that is still running blocks
join(handle, outcome) ==
    IF ~handle THEN "Ok"
    ELSE IF outcome = "running" THEN "blocked"
    ELSE IF outcome = "ok" THEN "Ok"
    ELSE IF outcome = "err" THEN "Err"
    ELSE "panic"

ConsoleHandle_shutdown_unflagged(joined) ==
    /\ shutdown' = shutdown
    /\ events' = FALSE
    /\ thread' = FALSE
    /\ returned' = IF joined \in {"Ok", "Err"} THEN joined ELSE returned
    /\ gui' = IF joined = "Ok" THEN "closed" ELSE "running"

\* ConsoleHandle::shutdown as Gui::update calls it: the flag is set, the
\* event sender is dropped and the thread is joined. On Ok the window is
\* asked to close; an Err is returned by update; a panicked application
\* thread makes the expect panic; a join that blocks leaves the
\* presentation thread waiting in it
ConsoleHandle_shutdown(joined) ==
    /\ shutdown' = TRUE
    /\ events' = FALSE
    /\ thread' = FALSE
    /\ returned' = IF joined \in {"Ok", "Err"} THEN joined ELSE returned
    /\ gui' = IF joined = "Ok" THEN "closed"
              ELSE IF joined = "Err" THEN "running"
              ELSE IF joined = "panic" THEN "panicked"
              ELSE "joining"

\* Gui::update
Gui_update ==
    /\ gui = "running"
    /\ ConsoleHandle_should_shutdown
    /\ ConsoleHandle_shutdown(join(thread, app))
    /\ UNCHANGED <<input, scrollback, redrawer, channel, needs_redraw>>
    /\ UNCHANGED <<app, clones, event>>
    /\ UNCHANGED wrap_vars
    /\ UNCHANGED lock_vars

\* command_handler, the Shutdown arm: the flag is set while the application
\* may still be running
Command_Shutdown ==
    /\ gui = "running"
    /\ ~shutdown
    /\ shutdown' = TRUE
    /\ UNCHANGED <<input, scrollback, redrawer, events, channel, needs_redraw,
                   gui, returned>>
    /\ UNCHANGED wrap_vars
    /\ UNCHANGED lock_vars
    /\ UNCHANGED life_vars

JoinHandle_join_timed_out ==
    /\ gui = "joining"
    /\ returned' = "Ok"
    /\ gui' = "closed"
    /\ UNCHANGED <<input, scrollback, shutdown, redrawer, events, channel,
                   needs_redraw>>
    /\ UNCHANGED wrap_vars
    /\ UNCHANGED lock_vars
    /\ UNCHANGED life_vars

\* ConsoleHandle::shutdown, lines 200-203, for a join that had to wait: it
\* returns when the application thread has finished, and shutdown() and
\* update go on as after a join that did not wait
JoinHandle_join ==
    /\ gui = "joining"
    /\ join(TRUE, app) # "blocked"
    /\ returned' = IF join(TRUE, app) \in {"Ok", "Err"} THEN join(TRUE, app)
                   ELSE returned
    /\ gui' = IF join(TRUE, app) = "Ok" THEN "closed"
              ELSE IF join(TRUE, app) = "Err" THEN "running"
              ELSE "panicked"
    /\ UNCHANGED <<input, scrollback, shutdown, redrawer, events, channel,
                   needs_redraw>>
    /\ UNCHANGED wrap_vars
    /\ UNCHANGED lock_vars
    /\ UNCHANGED life_vars

\* Drop for Console, with the reference count at the time of the drop
Console_drop(count) ==
    IF count = 1
    THEN shutdown' = TRUE /\ redraw
    ELSE UNCHANGED <<shutdown, needs_redraw>>

\* app_thread: the application returns Ok or an error, or panics; its
\* Console is dropped
App_return(outcome) ==
    /\ app = "running"
    /\ app' = outcome
    /\ Console_drop(strong_count)
    /\ UNCHANGED <<input, scrollback, redrawer, events, channel, gui, returned>>
    /\ UNCHANGED <<clones, thread, event>>
    /\ UNCHANGED wrap_vars
    /\ UNCHANGED lock_vars

\* the event loop of examples/echo.rs: `while let Ok(event) =
\* console.next_event()` ends at the receive failure and the application
\* returns Ok
App_receive_failed ==
    /\ event = "Disconnected"
    /\ App_return("ok")

\* the event loop of examples/multithreaded.rs: at a submitted line the
\* application may break out of the loop, fail or panic
App_quit(outcome) ==
    /\ event = "Input"
    /\ App_return(outcome)

\* Clone for Console: a clone is handed to another thread
Console_clone ==
    /\ ConsoleAlive
    /\ clones < MaxClones
    /\ clones' = clones + 1
    /\ UNCHANGED <<input, scrollback, shutdown, redrawer, events, channel,
                   needs_redraw, gui, returned>>
    /\ UNCHANGED <<app, thread, event>>
    /\ UNCHANGED wrap_vars
    /\ UNCHANGED lock_vars

\* a clone on another thread is dropped
Console_dropped ==
    /\ clones > 0
    /\ clones' = clones - 1
    /\ Console_drop(strong_count)
    /\ UNCHANGED <<input, scrollback, redrawer, events, channel, gui, returned>>
    /\ UNCHANGED <<app, thread, event>>
    /\ UNCHANGED wrap_vars
    /\ UNCHANGED lock_vars

\* Console::set_suggestion
Console_set_suggestion(suggestion) ==
    /\ ConsoleAlive
    /\ input' = set_suggestion(input, suggestion)
    /\ redraw
    /\ UNCHANGED <<scrollback, shutdown, redrawer, events, channel, gui, returned>>
    /\ UNCHANGED wrap_vars
    /\ UNCHANGED lock_vars
    /\ UNCHANGED life_vars

\* Console::clear_secure
Console_clear_secure ==
    /\ ConsoleAlive
    /\ input' = clear_secure(input)
    /\ redraw
    /\ UNCHANGED <<scrollback, shutdown, redrawer, events, channel, gui, returned>>
    /\ UNCHANGED wrap_vars
    /\ UNCHANGED lock_vars
    /\ UNCHANGED life_vars

\* Console::set_secure
Console_set_secure ==
    /\ ConsoleAlive
    /\ input' = set_secure(input)
    /\ redraw
    /\ UNCHANGED <<scrollback, shutdown, redrawer, events, channel, gui, returned>>
    /\ UNCHANGED wrap_vars
    /\ UNCHANGED lock_vars
    /\ UNCHANGED life_vars

\* Console::clear_input
Console_clear_input ==
    /\ ConsoleAlive
    /\ input' = clear_input(input)
    /\ redraw
    /\ UNCHANGED <<scrollback, shutdown, redrawer, events, channel, gui, returned>>
    /\ UNCHANGED wrap_vars
    /\ UNCHANGED lock_vars
    /\ UNCHANGED life_vars

recv_newest(queue) ==
    IF queue # <<>>
    THEN [event |-> queue[Len(queue)],
          channel |-> SubSeq(queue, 1, Len(queue) - 1)]
    ELSE [event |-> "Disconnected", channel |-> queue]

\* Receiver::recv on a queue that holds an event, or that is empty with
\* the sender dropped: the value returned and the queue left
recv(queue) ==
    IF queue # <<>>
    THEN [event |-> Head(queue), channel |-> Tail(queue)]
    ELSE [event |-> "Disconnected", channel |-> queue]

\* Console::next_event: the call blocks while the queue is empty and the
\* sender is alive
Console_next_event ==
    /\ ConsoleAlive
    /\ channel # <<>> \/ ~events
    /\ event' = recv(channel).event
    /\ channel' = recv(channel).channel
    /\ UNCHANGED <<input, scrollback, shutdown, redrawer, events, needs_redraw, gui, returned>>
    /\ UNCHANGED <<app, clones, thread>>
    /\ UNCHANGED wrap_vars
    /\ UNCHANGED lock_vars

-----------------------------------------------------------------------------
(* Specifications *)

\* the Wrapped and Lines under test, idle
WrapIdle ==
    /\ wrapped = default_wrapped
    /\ iter = NoLines
    /\ front = <<>>
    /\ back = <<>>
    /\ last_item = NoItem

WrapInit ==
    /\ wrapped \in {from_string(s) : s \in Strings(MaxLen) \cup {HelloWorld}}
                   \cup {default_wrapped}
    /\ iter = NoLines
    /\ front = <<>>
    /\ back = <<>>
    /\ last_item = NoItem
    /\ StateInit

WrapNext ==
    \/ \E width \in Widths : Wrapped_lines(width)
    \/ Lines_next
    \/ Lines_next_back

\* a Wrapped built from any string, wrapped at any width and iterated from
\* both ends
SpecWrap == WrapInit /\ [][WrapNext]_vars

MemoInit ==
    /\ wrapped \in {from_string(s) : s \in Strings(MaxEditLen)} \cup {default_wrapped}
    /\ iter = NoLines
    /\ front = <<>>
    /\ back = <<>>
    /\ last_item = NoItem
    /\ StateInit

MemoNext ==
    \/ \E width \in 0..MaxWidth : Wrapped_lines(width)
    \/ \E ch \in Alphabet : String_push(ch)
    \/ String_pop
    \/ String_clear

\* a Wrapped whose string is edited through DerefMut between lines() calls
SpecMemo == MemoInit /\ [][MemoNext]_vars

\* the edit buffer after the user has typed n times 'a'
TypedBuffer(n) == [deref_mut(default_wrapped) EXCEPT !.string = [i \in 1..n |-> 97]]

\* a console whose presentation backend has installed its redrawer and whose
\* user has typed nothing or "aa", all of whose events the application has
\* received
ScrollbackInit ==
    /\ WrapIdle
    /\ input \in {default_input, [default_input EXCEPT !.buffer = TypedBuffer(2)]}
    /\ scrollback = default_scrollback
    /\ shutdown = FALSE
    /\ redrawer = TRUE
    /\ events = TRUE
    /\ channel = <<>>
    /\ needs_redraw = FALSE
    /\ gui = "running"
    /\ returned = "nothing"
    /\ LifeInit

ScrollbackNext ==
    \/ \E line \in PushLines : Console_push_line(line)
    \/ Console_clear_scrollback
    \/ Console_reset_scroll
    \/ \E delta \in ScrollDeltas : ConsoleHandle_scroll(delta)
    \/ \E wheel_lines \in WheelLines : Gui_mouse_wheel(wheel_lines)
    \/ \E cols \in Cols, rows \in Rows : Gui_render(cols, rows)

\* the scrollback: pushes, scrolling, clearing and render passes
SpecScrollback == ScrollbackInit /\ [][ScrollbackNext]_vars

InputInit == WrapIdle /\ StateInit

InputNext ==
    \/ State_set_redrawer
    \/ \E ch \in TypedChars : ConsoleHandle_input(ch)
    \/ ConsoleHandle_complete_suggestion
    \/ \E suggestion \in Suggestions : Console_set_suggestion(suggestion)
    \/ Console_clear_secure
    \/ Console_set_secure
    \/ Console_clear_input
    \/ Console_next_event

\* the input state: typing, suggestions, secure mode and the event channel
SpecInput == InputInit /\ [][InputNext]_vars

\* the keys typed while the application comes to its end: 'a' and carriage
\* return
LifeChars == {97, CR}

\* the line pushed and the suggestion set meanwhile: "a" and "b"
LifeLines == {<<97>>}
LifeSuggestions == {<<98>>}

\* how the application thread ends
Outcomes == {"ok", "err", "panicked"}

LifecycleInit == WrapIdle /\ StateInit

LifecycleNext ==
    \/ State_set_redrawer
    \/ \E ch \in LifeChars : ConsoleHandle_input(ch)
    \/ Console_next_event
    \/ \E line \in LifeLines : Console_push_line(line)
    \/ \E suggestion \in LifeSuggestions : Console_set_suggestion(suggestion)
    \/ Console_clear_input
    \/ Console_reset_scroll
    \/ Console_clear_scrollback
    \/ Console_clone
    \/ Console_dropped
    \/ \E outcome \in Outcomes : App_return(outcome)
    \/ Gui_update

\* the life of the application thread and the shutdown of the console
SpecLifecycle == LifecycleInit /\ [][LifecycleNext]_vars

ShutdownInit == WrapIdle /\ StateInit

ShutdownNext ==
    \/ State_set_redrawer
    \/ \E ch \in LifeChars : ConsoleHandle_input(ch)
    \/ Console_next_event
    \/ \E line \in LifeLines : Console_push_line(line)
    \/ Console_clear_input
    \/ App_receive_failed
    \/ \E outcome \in Outcomes : App_quit(outcome)
    \/ Command_Shutdown
    \/ Gui_update
    \/ JoinHandle_join

\* a shutdown that may begin while the application thread is still in its
\* event loop. The application thread and the thread that waits in the join
\* are threads of the operating system: each keeps running while it can
SpecShutdown ==
    /\ ShutdownInit
    /\ [][ShutdownNext]_vars
    /\ WF_vars(Console_next_event)
    /\ WF_vars(App_receive_failed)
    /\ WF_vars(JoinHandle_join)

LocksInit == WrapIdle /\ StateInit

LocksNext ==
    \/ \E t \in Threads : \E call \in CallsOf(t) : Thread_call(t, call)
    \/ \E t \in Threads : Mutex_lock(t)
    \/ \E t \in Threads : Mutex_unlock(t)

\* the threads of the program taking and dropping the guards of State
SpecLocks == LocksInit /\ [][LocksNext]_vars

-----------------------------------------------------------------------------
(* The word-wrap engine: properties *)

IsNewline(ch) == ch = LF \/ ch = CR

\* the character of s that starts at byte offset b, or 0 when none does
CharAtByte(s, b) ==
    IF \E i \in 1..Len(s) : ByteIndex(s, i) = b
    THEN s[CHOOSE i \in 1..Len(s) : ByteIndex(s, i) = b]
    ELSE 0

\* the spans that hold the byte offset b
SpansHolding(offs, b) ==
    {k \in 1..Len(offs) : offs[k].start <= b /\ b < offs[k].end}

\* the spans are in order, inside s, chained end to start with at most one
\* skipped line terminator, and every other character is in exactly one span
SpansReconstruct(s, offs) ==
    /\ offs # <<>>
    /\ offs[1].start = 0
    /\ \A k \in 1..Len(offs) :
          offs[k].start <= offs[k].end /\ offs[k].end <= ByteLen(s)
    /\ \A k \in 2..Len(offs) :
          \/ offs[k].start = offs[k - 1].end
          \/ /\ offs[k].start = offs[k - 1].end + 1
             /\ IsNewline(CharAtByte(s, offs[k - 1].end))
    /\ \A i \in 1..Len(s) :
          LET n == Cardinality(SpansHolding(offs, ByteIndex(s, i)))
          IN  n = 1 \/ (n = 0 /\ IsNewline(s[i]))

\* lines(w) with w >= 1 has wrapped the string and nothing has edited it since
WrappedAtWidth == ~wrapped.dirty /\ wrapped.wrapped_width >= 1

\* C1: for every width w >= 1 and every string, the spans of lines(w) are
\* well-formed and reconstruct the string: start <= end <= len, the first
\* span starts at byte 0, each span starts where the previous one ended or one
\* line terminator later, and only line terminators are outside every span.
C1_SpansReconstructString ==
    WrappedAtWidth => SpansReconstruct(wrapped.string, wrapped.offsets)

\* the number of characters of a span that can be sliced
SpanChars(s, range) == Len(Slice(s, range).text)

\* C2: for every width w >= 1 and every string, every line of lines(w) holds
\* at most w characters.
C2_LinesAtMostWidth ==
    WrappedAtWidth =>
        \A k \in 1..Len(wrapped.offsets) :
            SpanChars(wrapped.string, wrapped.offsets[k]) <= wrapped.wrapped_width

\* the locals of wrap after line 55 for the i-th character, before the width test
ScanBeforeBreak(s, chars_wide, i) ==
    ScanChar(ScanTo(s, chars_wide, i - 1), ByteIndex(s, i), s[i])

IsWordChar(ch) == ~IsNewline(ch) /\ ~is_break(ch)

\* the byte offset just past the run of word characters that starts at byte b
WordEnd(s, b) ==
    LET first == CHOOSE i \in 1..Len(s) : ByteIndex(s, i) = b
        stops == {j \in first..Len(s) : ~IsWordChar(s[j])}
    IN  IF stops = {} THEN ByteLen(s)
        ELSE ByteIndex(s, CHOOSE j \in stops : \A j2 \in stops : j <= j2)

\* a full line whose current word started after the line start is closed at
\* that word's first byte, the next line starts there, and no span boundary
\* falls inside the word
ClosesAtWordStart(s, w, offs) ==
    \A i \in 1..(Len(s) - 1) :
        LET st == ScanBeforeBreak(s, w, i)
            k  == Len(st.offsets) + 1
        IN  (BreakFires(st, w, TRUE) /\ st.last_word_start > st.line_start) =>
                /\ k + 1 <= Len(offs)
                /\ offs[k] = Range(st.line_start, st.last_word_start)
                /\ offs[k + 1].start = st.last_word_start
                /\ \A j \in 1..Len(offs) :
                      LET we == WordEnd(s, st.last_word_start)
                      IN  /\ ~(st.last_word_start < offs[j].start /\ offs[j].start < we)
                          /\ ~(st.last_word_start < offs[j].end /\ offs[j].end < we)

\* a string without line terminators that fits the width is one span
FitsInOneLine(s, w, offs) ==
    ((\A i \in 1..Len(s) : ~IsNewline(s[i])) /\ Len(s) <= w) =>
        offs = <<Range(0, ByteLen(s))>>

\* the assertions of wrap_tests on the spans
HelloWorldExample(s, w, offs) ==
    /\ (s = HelloWorld /\ w = 10) =>
          /\ offs = <<Range(0, 6), Range(6, 11)>>
          /\ Slice(s, offs[1]).text = <<104, 101, 108, 108, 111, 32>>
          /\ Slice(s, offs[2]).text = <<119, 111, 114, 108, 100>>
    /\ (s = HelloWorld /\ w = 11) => offs = <<Range(0, 11)>>

\* C3: when the line is full, more input remains and the current word started
\* after the line start, the line is closed at the first byte of that word,
\* which moves whole to the next line ("hello world" at 10 gives "hello ",
\* "world"); a string without line terminators of at most w characters is
\* exactly one span over the whole string ("hello world" at 11).
C3_BreakAtWordStart ==
    WrappedAtWidth =>
        /\ ClosesAtWordStart(wrapped.string, wrapped.wrapped_width, wrapped.offsets)
        /\ FitsInOneLine(wrapped.string, wrapped.wrapped_width, wrapped.offsets)
        /\ HelloWorldExample(wrapped.string, wrapped.wrapped_width, wrapped.offsets)

\* "hello world" wrapped at 10 and its first line read
C3_Witness ==
    /\ wrapped.string = HelloWorld
    /\ wrapped.wrapped_width = 10
    /\ wrapped.offsets = <<Range(0, 6), Range(6, 11)>>
    /\ front = <<<<104, 101, 108, 108, 111, 32>>>>

\* one step of the edited Wrapped: a lines(w) call leaves exactly the spans of
\* a fresh wrap of the current string, a repeated call at the same width
\* returns the spans of the call before it, and every edit sets dirty
MemoStep ==
    /\ \A w \in 1..MaxWidth :
          Wrapped_lines(w) =>
              /\ wrapped'.string = wrapped.string
              /\ wrapped'.offsets = WrapOffsets(wrapped.string, w)
              /\ (iter.live /\ wrapped.wrapped_width = w) =>
                    wrapped'.offsets = wrapped.offsets
    /\ ((\E ch \in Alphabet : String_push(ch)) \/ String_pop \/ String_clear) =>
          wrapped'.dirty

\* C4: the memoized spans are never stale: after any edits through DerefMut
\* and lines(w) calls with w >= 1, each lines(w) returns the spans of a fresh
\* wrap of the current string; a repeated call at the same width returns the
\* same spans; every mutable access sets dirty.
C4_MemoNeverStale == [][MemoStep]_vars

\* an edit has left the cached spans of a width >= 1 stale, with dirty set
C4_Witness ==
    /\ wrapped.dirty
    /\ wrapped.wrapped_width >= 1
    /\ wrapped.offsets # <<>>
    /\ wrapped.offsets # WrapOffsets(wrapped.string, wrapped.wrapped_width)

RECURSIVE Reverse(_)
Reverse(seq) == IF seq = <<>> THEN <<>> ELSE Append(Reverse(Tail(seq)), Head(seq))

\* the texts of the spans
Texts(s, offs) == [k \in 1..Len(offs) |-> Slice(s, offs[k]).text]

\* what has been returned from the front, what remains and what has been
\* returned from the back are the lines of the cached spans, in order
YieldedOnce ==
    iter.live =>
        /\ front \o Texts(wrapped.string, iter.wrapped) \o Reverse(back)
              = Texts(wrapped.string, wrapped.offsets)
        /\ Lines_len = Len(wrapped.offsets) - Len(front) - Len(back)

\* C5: backward iteration yields the forward sequence in reverse over the
\* same spans; under any mix of next() and next_back() every span is yielded
\* exactly once and len() is the number of spans not yet yielded (stated for
\* the spans of the widths w >= 1 of the wrap contract).
C5_EverySpanYieldedOnce ==
    WrappedAtWidth =>
        /\ last_item.kind # "panic"
        /\ YieldedOnce

-----------------------------------------------------------------------------
(* The scrollback: properties *)

RECURSIVE TotalLinesAt(_, _)
\* the number of lines the entries wrap to at a width, wrapped afresh
TotalLinesAt(entries, width) ==
    IF entries = <<>> THEN 0
    ELSE Len(WrapOffsets(Head(entries).string, width))
         + TotalLinesAt(Tail(entries), width)

\* x floored at 0
AtLeastZero(x) == IF x < 0 THEN 0 ELSE x

\* what a push of a line that wraps to line_count lines leaves
PushPost(line, line_count) ==
    /\ scrollback'.scroll =
           IF scrollback.scroll > 0 THEN scrollback.scroll + line_count ELSE 0
    /\ Len(scrollback'.events) = Len(scrollback.events) + 1
    /\ scrollback'.events[1].string = line
    /\ \A k \in 1..Len(scrollback.events) :
           scrollback'.events[k + 1] = scrollback.events[k]
    /\ scrollback'.columns = scrollback.columns
    /\ scrollback'.maximum_scroll = scrollback.maximum_scroll

\* C6: a push while scroll > 0 increases scroll by exactly the number of lines
\* the new entry wraps to at the scrollback's columns, a push while scroll = 0
\* leaves scroll at 0, and in both cases the entry is inserted at the front
\* and every other entry is left as it was.
C6_PushKeepsViewport ==
    [][\A line \in PushLines :
           Console_push_line(line) =>
               PushPost(line, Len(WrapOffsets(line, scrollback.columns)))]_vars

\* a push while scrolled has acted: only that raises scroll above the bound
C6_Witness ==
    /\ Len(scrollback.events) >= 2
    /\ scrollback.scroll > scrollback.maximum_scroll
    /\ scrollback.scroll >= 2

\* what a scroll by delta lines leaves, in unbounded arithmetic
ScrollPost(delta) ==
    /\ scrollback'.scroll \in 0..USIZE_MAX
    /\ scrollback'.scroll =
           IF delta > 0
           THEN min(scrollback.scroll + delta, scrollback.maximum_scroll)
           ELSE AtLeastZero(scrollback.scroll + delta)
    /\ delta > 0 => scrollback'.scroll <= scrollback.maximum_scroll
    /\ scrollback.scroll <= scrollback.maximum_scroll =>
           scrollback'.scroll <= scrollback.maximum_scroll
    /\ scrollback' = [scrollback EXCEPT !.scroll = scrollback'.scroll]

RenderBound(entries, input_rows, cols, rows) ==
    AtLeastZero(TotalLinesAt(entries, cols) - AtLeastZero(rows - input_rows))

\* what a render pass that computes the bound leaves
RenderPost(cols, bound) ==
    /\ scrollback'.columns = cols
    /\ scrollback'.maximum_scroll = bound
    /\ scrollback'.scroll <= scrollback'.maximum_scroll
    /\ IF scrollback.scroll > bound
       THEN scrollback'.scroll = bound /\ needs_redraw'
       ELSE scrollback'.scroll = scrollback.scroll /\ ~needs_redraw'

\* C8: after every render pass that reaches the recomputation (a pass leaves
\* the width it rendered at in columns), maximum_scroll
\* is the total wrapped line count of all entries at the current width minus
\* max(rows - rows the input was drawn on, 0), floored at 0, and
\* scroll <= maximum_scroll; a
\* scroll that exceeded the new bound is set to exactly the bound and a
\* re-render is requested, otherwise scroll is unchanged and none is.
C8_RenderRecomputesBound ==
    [][\A rows \in Rows :
           (gui' = "running" /\ Gui_render(scrollback'.columns, rows)) =>
               RenderPost(scrollback'.columns,
                          RenderBound(scrollback.events, Len(input'.buffer.offsets),
                                      scrollback'.columns, rows))]_vars

\* a render pass has clamped a scroll that exceeded the new bound
C8_Witness ==
    /\ gui = "running"
    /\ needs_redraw
    /\ Len(scrollback.events) >= 1
    /\ \A k \in 1..Len(scrollback.events) :
           /\ ~scrollback.events[k].dirty
           /\ scrollback.events[k].wrapped_width = scrollback.columns
    /\ scrollback.maximum_scroll >= 1
    /\ scrollback.scroll = scrollback.maximum_scroll
    /\ scrollback.maximum_scroll < SumLines(scrollback.events)

-----------------------------------------------------------------------------
(* The input state: properties *)

\* a suggestion is active
SuggestionActive(inp) ==
    inp.mode.kind = "Suggesting" /\ inp.mode.suggestion # <<>>

\* C9: complete_suggestion with no suggestion or an empty one returns false
\* and leaves the buffer, the mode and the event channel unchanged; with a
\* non-empty suggestion it appends the whole suggestion to the end of the
\* buffer, clears the suggestion, notifies the application and returns true,
\* in one step.
C9_CompleteSuggestion ==
    [][ConsoleHandle_complete_suggestion =>
           IF SuggestionActive(input)
           THEN /\ input'.buffer.string =
                       input.buffer.string \o input.mode.suggestion
                /\ input'.mode = Suggesting(<<>>)
                /\ returned' = "true"
                /\ events => channel' = Append(channel, "InputBufferChanged")
           ELSE /\ returned' = "false"
                /\ input' = input
                /\ channel' = channel]_vars

\* a completion has appended a suggestion and told the application
C9_Witness ==
    /\ returned = "true"
    /\ input.mode = Suggesting(<<>>)
    /\ input.buffer.string = <<97, 97, 98>>
    /\ channel # <<>>
    /\ channel[Len(channel)] = "InputBufferChanged"

\* the characters that are typed into the buffer
OrdinaryChars == TypedChars \ {BS, CR, LF, TAB}

\* C10: while a suggestion is active, typing its first character shortens it
\* by exactly that character, and typing any other character clears it.
C10_TypingAgainstSuggestion ==
    [][\A ch \in OrdinaryChars :
           (ConsoleHandle_input(ch) /\ SuggestionActive(input)) =>
               input'.mode = IF ch = Head(input.mode.suggestion)
                             THEN Suggesting(Tail(input.mode.suggestion))
                             ELSE Suggesting(<<>>)]_vars


\* the buffer text input(ch) is to leave
BufferAfter(text, ch) ==
    IF ch = BS
    THEN IF text = <<>> THEN <<>> ELSE SubSeq(text, 1, Len(text) - 1)
    ELSE IF ch \in {CR, LF, TAB} THEN text
    ELSE Append(text, ch)

\* C11: input(ch) appends an ordinary character at the end of the buffer;
\* backspace removes exactly the last character and does nothing to an empty
\* buffer; carriage return, newline and tab leave the buffer as it is.
C11_InputEditsBuffer ==
    [][\A ch \in TypedChars :
           ConsoleHandle_input(ch) =>
               input'.buffer.string = BufferAfter(input.buffer.string, ch)]_vars

\* "ba" is in the buffer: its 'a' was typed after a 'b', and no suggestion
\* ends in 'a'
C11_Witness ==
    /\ input.buffer.string = <<98, 97>>
    /\ input.buffer.dirty


\* the sender and a receiver of the event channel are alive
BeforeShutdown == events /\ ConsoleAlive

\* the events input(ch) is to enqueue
Notified(ch) ==
    IF ch \in {CR, LF} THEN <<"Input">>
    ELSE IF ch = TAB THEN <<>>
    ELSE <<"InputBufferChanged">>

\* C12: before shutdown, an ordinary character, a backspace and a successful
\* complete_suggestion each enqueue exactly one InputBufferChanged; a carriage
\* return or newline enqueues exactly one Input and no InputBufferChanged; tab
\* and an unsuccessful complete_suggestion enqueue nothing.
C12_EditsNotify ==
    [][BeforeShutdown =>
           /\ \A ch \in TypedChars :
                  ConsoleHandle_input(ch) => channel' = channel \o Notified(ch)
           /\ ConsoleHandle_complete_suggestion =>
                  channel' = IF SuggestionActive(input)
                             THEN Append(channel, "InputBufferChanged")
                             ELSE channel]_vars

\* an edit and then a submission have been notified, in that order
C12_Witness ==
    /\ BeforeShutdown
    /\ input.buffer.string # <<>>
    /\ channel = <<"InputBufferChanged", "Input">>


\* a step of the presentation thread that sends on the event channel
Sends ==
    \/ \E ch \in TypedChars : ConsoleHandle_input(ch)
    \/ ConsoleHandle_complete_suggestion

C14_ShutdownAfterOk ==
    [][/\ (Gui_update /\ app = "ok") =>
              returned' = "Ok" /\ gui' = "closed" /\ shutdown'
       /\ shutdown => shutdown'
       /\ shutdown' => Console_should_shutdown' /\ ConsoleHandle_should_shutdown'
      ]_vars

\* the application returned Ok, shutdown() joined it and returned Ok, and a
\* clone of the Console that is still alive sees the flag
C14_Witness ==
    /\ app = "ok"
    /\ returned = "Ok"
    /\ gui = "closed"
    /\ ~thread
    /\ clones > 0
    /\ Console_should_shutdown

Command ==
    \/ \E line \in LifeLines : Console_push_line(line)
    \/ \E suggestion \in LifeSuggestions : Console_set_suggestion(suggestion)
    \/ Console_clear_input
    \/ Console_reset_scroll
    \/ Console_clear_scrollback

\* C16: once the shutdown flag is set, a command leaves the input state and
\* the scrollback as they are (stated for the commands that arrive while the
\* presentation thread is still running its window).
C16_NoCommandAfterShutdown ==
    [][(shutdown /\ gui = "running" /\ Command) =>
           input' = input /\ scrollback' = scrollback]_vars


\* C17: no lock of the shared state is held when a handler sends on the event
\* channel or asks for a redraw: each lock is released before.
C17_NoLockAcrossNotify ==
    [][/\ (\E ch \in TypedChars : ConsoleHandle_input(ch)) =>
              guards.input = {}
       /\ (ConsoleHandle_complete_suggestion /\ SuggestionActive(input)) =>
              guards.complete_suggestion = {}
       /\ (\E delta \in ScrollDeltas : ConsoleHandle_scroll(delta)) =>
              guards.scroll = {}]_vars


\* C18: clear_scrollback removes every entry and sets scroll to 0;
\* reset_scroll sets scroll to 0 and leaves the entries, columns and
\* maximum_scroll as they are; neither changes the input state or the
\* shutdown flag.
C18_ClearAndResetScroll ==
    [][/\ Console_clear_scrollback =>
              /\ scrollback'.events = <<>>
              /\ scrollback'.scroll = 0
              /\ input' = input /\ shutdown' = shutdown
       /\ Console_reset_scroll =>
              /\ scrollback' = [scrollback EXCEPT !.scroll = 0]
              /\ input' = input /\ shutdown' = shutdown]_vars

\* the scrollback is empty and at the bottom while maximum_scroll still has
\* the value a pass over a longer scrollback computed: it was cleared since
C18_Witness ==
    /\ scrollback.events = <<>>
    /\ scrollback.scroll = 0
    /\ scrollback.maximum_scroll > 0

WrappedAtZero ==
    /\ ~wrapped.dirty
    /\ wrapped.wrapped_width = 0
    /\ wrapped.offsets # <<>>

\* C20: at width 0 every string wraps into well-formed spans
\* (start <= end <= len) that can all be sliced, and maximum_scroll for zero
\* rows saturates: it is the number of lines.
C20_ZeroWidthNeverErrors ==
    WrappedAtZero =>
        /\ \A k \in 1..Len(wrapped.offsets) :
               /\ wrapped.offsets[k].start <= wrapped.offsets[k].end
               /\ wrapped.offsets[k].end <= ByteLen(wrapped.string)
        /\ ~LinesPanic(wrapped)
        /\ maximum_scroll_of(Len(wrapped.offsets), 0, 1) = Len(wrapped.offsets)


\* one word longer than the width has been wrapped: the word starts at the
\* line start whenever a line is full
LongWordWrapped ==
    /\ WrappedAtWidth
    /\ Len(wrapped.string) > wrapped.wrapped_width
    /\ \A i \in 1..Len(wrapped.string) : IsWordChar(wrapped.string[i])

\* C21: a single word longer than w is broken hard every w characters: every
\* closed line is non-empty and holds exactly w characters, each line starts
\* where the one before ended, and no empty line is emitted.
C21_HardBreakLongWord ==
    LongWordWrapped =>
        \A k \in 1..Len(wrapped.offsets) :
            /\ wrapped.offsets[k].start < wrapped.offsets[k].end
            /\ k < Len(wrapped.offsets) =>
                   SpanChars(wrapped.string, wrapped.offsets[k])
                       = wrapped.wrapped_width
            /\ k > 1 => wrapped.offsets[k].start = wrapped.offsets[k - 1].end


\* C22: once shutdown() has dropped the sender, next_event hands out the
\* events that wait, in order, and then the receive failure; the join of
\* shutdown() returns only when the application thread has finished (there
\* is no timeout), and with an application that returns at the receive
\* failure a join that waits does return.
C22_JoinAfterDisconnect ==
    /\ [][/\ (Console_next_event /\ ~events) =>
                 IF channel # <<>>
                 THEN event' = Head(channel) /\ channel' = Tail(channel)
                 ELSE event' = "Disconnected"
          /\ (gui = "joining" /\ gui' # "joining") => app # "running"]_vars
    /\ (gui = "joining") ~> (gui # "joining")

\* the application met the receive failure in its loop and returned, and the
\* shutdown() that waited for it has returned Ok
C22_Witness ==
    /\ event = "Disconnected"
    /\ app = "ok"
    /\ ~thread
    /\ returned = "Ok"
    /\ gui = "closed"


\* the order in which two guards may be held together: the one taken first,
\* the one taken second
LockOrder ==
    {<<"input", "scrollback">>, <<"input", "redrawer">>,
     <<"scrollback", "redrawer">>}

\* C23: the threads cannot deadlock on the locks of the state: whenever
\* threads are inside calls, one of them can take its next step, and a
\* thread that locks a mutex while it holds another takes them in the order
\* input, scrollback, redrawer.
C23_NoLockDeadlock ==
    /\ (\E t \in Threads : running[t] # <<>>) => \E t \in Threads : CanStep(t)
    /\ \A t \in Threads :
           (running[t] # <<>> /\ Head(running[t]).step = "lock") =>
               \A m \in HeldBy(t) : <<m, Head(running[t]).mutex>> \in LockOrder

\* the presentation thread holds the input guard and the redrawer guard at
\* once while the two other threads wait, one for each of them
C23_Witness ==
    /\ HeldBy("presentation") = {"input", "redrawer"}
    /\ running["app"] # <<>>
    /\ Head(running["app"]) = Lock("input")
    /\ running["background"] # <<>>
    /\ Head(running["background"]) = Lock("redrawer")


\* C24: the handle's should_shutdown() is true exactly when the flag is set,
\* the application thread has finished or the thread has been joined; the
\* return of the application thread makes it true and leaves the flag as it
\* was; once true it stays true.
C24_HandleShouldShutdown ==
    [][/\ (\E outcome \in Outcomes : App_return(outcome)) =>
              ConsoleHandle_should_shutdown' /\ shutdown' = shutdown
       /\ ConsoleHandle_should_shutdown => ConsoleHandle_should_shutdown'
       /\ ConsoleHandle_should_shutdown'
              <=> (shutdown' \/ app' # "running" \/ ~thread')]_vars

\* the application has failed, nobody has set the flag or joined the thread,
\* and the handle reports that the console should shut down
C24_Witness ==
    /\ app = "err"
    /\ ~shutdown
    /\ thread
    /\ ConsoleHandle_should_shutdown
    /\ ~Console_should_shutdown


\* the texts of the entries of a scrollback, in its order
EntryTexts(sb) == [k \in 1..Len(sb.events) |-> sb.events[k].string]

\* C25: the scrollback is newest first: a push puts its text in front of the
\* entries there are and leaves them in their order, and but for
\* clear_scrollback no other step changes the texts or their order, so the
\* entries are the pushed texts in reverse push order under every
\* interleaving.
C25_NewestFirst ==
    [][IF \E line \in PushLines : Console_push_line(line)
       THEN \E line \in PushLines :
                /\ Console_push_line(line)
                /\ EntryTexts(scrollback') = <<line>> \o EntryTexts(scrollback)
       ELSE IF Console_clear_scrollback THEN scrollback'.events = <<>>
       ELSE EntryTexts(scrollback') = EntryTexts(scrollback)]_vars

\* two different texts have been pushed: the one pushed last is in front
C25_Witness ==
    /\ Len(scrollback.events) = 2
    /\ scrollback.events[1].string = <<10, 32, 32>>
    /\ scrollback.events[2].string = <<97, 97, 32, 97>>
    /\ scrollback.scroll > 0


\* C26 as stated: scroll <= maximum_scroll in every reachable state.
C26_ScrollAlwaysBounded ==
    scrollback.scroll <= scrollback.maximum_scroll

\* a render pass that ran to its end
RenderCompleted ==
    /\ gui' = "running"
    /\ \E rows \in Rows : Gui_render(scrollback'.columns, rows)

\* C26, amended: scroll <= maximum_scroll holds after every render pass that
\* runs to its end, and scrolling, the mouse wheel, clear_scrollback and
\* reset_scroll keep it; scroll exceeds maximum_scroll only after a push made
\* while scrolled, until the next such render pass.
C26_ScrollBoundedButForPush ==
    [][\/ scrollback'.scroll <= scrollback'.maximum_scroll
       \/ /\ \/ scrollback.scroll > scrollback.maximum_scroll
              \/ \E line \in PushLines : Console_push_line(line)
          /\ ~RenderCompleted]_vars

\* a line was pushed while the viewport was scrolled to the bound: scroll is
\* above maximum_scroll, no render pass has run since
C26_Witness ==
    /\ scrollback.scroll > scrollback.maximum_scroll
    /\ scrollback.events # <<>>
    /\ scrollback.events[1].dirty = FALSE
    /\ gui = "running"


\* C27: from set_secure to the next clear_secure the mode is Secure after
\* every step, whatever the step is; clear_secure leaves the mode Text and the
\* buffer empty.
C27_SecureIsSticky ==
    [][/\ (input.mode = Secure /\ ~Console_clear_secure) => input'.mode = Secure
       /\ Console_clear_secure =>
              input'.mode = Text /\ input'.buffer.string = <<>>]_vars

====
